---- MODULE Spec2Model ----
(***************************************************************************)
(* The adapter queue of gmn_adapter (src/src/gmn_adapter/db/adapter_db.py): *)
(* the table "queue", the ORM session the QueueManager keeps open on it,   *)
(* and the QueueManager's operations.                                      *)
(*                                                                         *)
(* A package is a sequence of one-character strings, so that splitting it  *)
(* on "." and SQLite's conversion of the parts are computed, not assumed.  *)
(* The table is a set of rows: SQL gives a table no order of its own.      *)
(***************************************************************************)
EXTENDS Integers, Sequences, FiniteSets

\* ------------------------------------------------------------------ bounds

\* The most rows the table holds.
MaxRows == 3

\* ------------------------------------------------------------- characters

\* The characters packages are written in, in ASCII order.
Alphabet == <<".", "0", "1", "2", "3", "4", "5", "6", "7", "8", "9", "a", "b", "x">>

DigitChars == <<"0", "1", "2", "3", "4", "5", "6", "7", "8", "9">>

Digits == {DigitChars[i] : i \in 1..Len(DigitChars)}

DigitVal(c) == (CHOOSE i \in 1..Len(DigitChars) : DigitChars[i] = c) - 1

CharCode(c) == CHOOSE i \in 1..Len(Alphabet) : Alphabet[i] = c

\* str.split("."): the parts between the dots, empty parts included.
RECURSIVE SplitAcc(_, _, _)
SplitAcc(s, cur, acc) ==
    IF s = <<>> THEN Append(acc, cur)
    ELSE IF Head(s) = "." THEN SplitAcc(Tail(s), <<>>, Append(acc, cur))
    ELSE SplitAcc(Tail(s), Append(cur, Head(s)), acc)

split(s) == SplitAcc(s, <<>>, <<>>)

\* ------------------------------------------------------ SQLite's values

\* A text that SQLite reads as an integer literal (digits only here: the
\* alphabet has no sign and no blank).
IsIntLiteral(t) == t # <<>> /\ \A i \in 1..Len(t) : t[i] \in Digits

RECURSIVE ToInt(_)
ToInt(t) == IF t = <<>> THEN 0 ELSE ToInt(SubSeq(t, 1, Len(t) - 1)) * Len(DigitChars) + DigitVal(t[Len(t)])

IntegerValue(n) == [cls |-> "integer", n |-> n, s |-> <<>>]

TextValue(t) == [cls |-> "text", n |-> 0, s |-> t]

\* A column of INTEGER affinity keeps a text that is no integer literal as text.
IntAffinityKeepText(t) == TextValue(t)

\* The value a column of INTEGER affinity stores for a bound text, and the
\* value a bound text is compared as against such a column.
IntAffinity(t) == IF IsIntLiteral(t) THEN IntegerValue(ToInt(t)) ELSE TextValue(t)

\* memcmp order of two texts.
RECURSIVE LexLess(_, _)
LexLess(a, b) ==
    IF b = <<>> THEN FALSE
    ELSE IF a = <<>> THEN TRUE
    ELSE IF Head(a) = Head(b) THEN LexLess(Tail(a), Tail(b))
    ELSE CharCode(Head(a)) < CharCode(Head(b))

\* The decimal digits of a natural number.
RECURSIVE IntToChars(_)
IntToChars(n) ==
    IF n < Len(DigitChars) THEN <<DigitChars[n + 1]>>
    ELSE IntToChars(n \div Len(DigitChars)) \o <<DigitChars[(n % Len(DigitChars)) + 1]>>

\* The text of a stored value.
ValueText(v) == IF v.cls = "integer" THEN IntToChars(v.n) ELSE v.s

\* Every value compared as text.
SqlLessLexicographic(a, b) == LexLess(ValueText(a), ValueText(b))

\* SQLite's "<": an INTEGER is less than any TEXT, integers compare by
\* value, texts by memcmp.
SqlLess(a, b) ==
    IF a.cls = "integer" /\ b.cls = "integer" THEN a.n < b.n
    ELSE IF a.cls = "integer" THEN TRUE
    ELSE IF b.cls = "integer" THEN FALSE
    ELSE LexLess(a.s, b.s)

\* ----------------------------------------------------------------- inputs

PkgA_01_2 == <<"a", ".", "0", "1", ".", "2">>
PkgA_1_9 == <<"a", ".", "1", ".", "9">>
PkgA_1_10 == <<"a", ".", "1", ".", "1", "0">>
PkgB_x_1 == <<"b", ".", "x", ".", "1">>
PkgA_1_x == <<"a", ".", "1", ".", "x">>
PkgA_1 == <<"a", ".", "1">>
PkgA_1_2_3 == <<"a", ".", "1", ".", "2", ".", "3">>

\* Packages the callers pass: revisions 2, 9 and 10 of a.1, the first with its
\* identifier written with a leading zero, a package whose identifier is no
\* number, and two that do not split into three parts.
Packages == {PkgA_01_2, PkgA_1_9, PkgA_1_10, PkgB_x_1, PkgA_1, PkgA_1_2_3}

\* The packages get_predecessor is asked about: those, and one whose revision
\* is no number.
QueryPackages == Packages \cup {PkgA_1_x}

\* The packages that split into three parts.
Triples == {p \in Packages : Len(split(p)) = 3}

\* The (package, method) pairs the callers pass.
Keys ==
    {[package |-> p, method |-> "createDataPackage"] : p \in Packages}
        \cup {[package |-> PkgA_01_2, method |-> "updateDataPackage"]}

\* The pairs of the packages that split into three parts.
TripleKeys == {k \in Keys : k.package \in Triples}

OwnerNames == <<"owner1", "owner2", "owner3">>

DoiNames == <<"doi1", "doi2", "doi3">>

\* An event of datetime t names the t-th owner and doi.
Event(package, method, t) ==
    [package |-> package, method |-> method, datetime |-> t,
     owner |-> OwnerNames[t], doi |-> DoiNames[t]]

\* The events PASTA sends: every pair at two of three datetimes, with another
\* owner and doi at each, and a package that does not split into three parts
\* once.
Events ==
    {Event(PkgA_01_2, "createDataPackage", 1), Event(PkgA_01_2, "createDataPackage", 2),
     Event(PkgA_01_2, "updateDataPackage", 2), Event(PkgA_01_2, "updateDataPackage", 3),
     Event(PkgA_1_9, "createDataPackage", 1), Event(PkgA_1_9, "createDataPackage", 3),
     Event(PkgA_1_10, "createDataPackage", 2), Event(PkgA_1_10, "createDataPackage", 3),
     Event(PkgB_x_1, "createDataPackage", 1), Event(PkgB_x_1, "createDataPackage", 2),
     Event(PkgA_1, "createDataPackage", 1), Event(PkgA_1_2_3, "createDataPackage", 1)}

\* The events of the callers that also write into the rows they are handed.
CallerEvents ==
    {Event(PkgA_01_2, "createDataPackage", 1), Event(PkgA_01_2, "updateDataPackage", 2),
     Event(PkgA_1_9, "createDataPackage", 1)}

\* The events sent to a store that is followed from __init__ to delete_queue:
\* a pair at two datetimes, its package under the other method, two more
\* revisions, and a package of four parts.
StoreEvents ==
    {Event(PkgA_01_2, "createDataPackage", 1), Event(PkgA_01_2, "createDataPackage", 2),
     Event(PkgA_01_2, "updateDataPackage", 2), Event(PkgA_1_9, "createDataPackage", 2),
     Event(PkgA_1_10, "createDataPackage", 3), Event(PkgA_1_2_3, "createDataPackage", 1)}

\* The value a caller writes into a row it was handed.
CallerOwner == "caller"

\* ----------------------------------------------------------------- state

VARIABLES
    db,       \* the committed rows of table queue
    tx,       \* the rows as the session's open transaction sees them
    dirty,    \* attribute changes of attached objects not flushed yet
    call,     \* the last call of the QueueManager and what it returned
    adapter,  \* the adapter loop: pc, the rows to serve, the heads served
    store     \* the QueueManager: its location, file, table, engine and session

vars == <<db, tx, dirty, call, adapter, store>>

\* class Queue: a row of the table as SQLite stores it.
Queue(package, scope, identifier, revision, method, datetime, owner, doi, dequeued) ==
    [package |-> package, scope |-> scope, identifier |-> IntAffinity(identifier),
     revision |-> IntAffinity(revision), method |-> method, datetime |-> datetime,
     owner |-> owner, doi |-> doi, dequeued |-> dequeued]

\* A primary key that takes in the datetime as well.
PrimaryKeyWithDatetime(tbl, row) ==
    \E r \in tbl : r.package = row.package /\ r.method = row.method /\ r.datetime = row.datetime

\* primary_key=True on package and method: the row's key is taken.
PrimaryKeyConflict(tbl, row) ==
    \E r \in tbl : r.package = row.package /\ r.method = row.method

\* An INSERT OR REPLACE.
InsertOrReplace(tbl, row) ==
    [ok |-> TRUE,
     tbl |-> {r \in tbl : ~(r.package = row.package /\ r.method = row.method)} \cup {row}]

\* session.add(event) and the INSERT of the flush: IntegrityError on a taken key.
Insert(tbl, row) ==
    IF PrimaryKeyConflict(tbl, row) THEN [ok |-> FALSE, tbl |-> tbl]
    ELSE [ok |-> TRUE, tbl |-> tbl \cup {row}]

\* The flush of the session: the UPDATE of every attached object that changed.
Flush(tbl, changes) ==
    IF changes = {} THEN tbl
    ELSE {IF \E d \in changes : d.package = r.package /\ d.method = r.method
          THEN [r EXCEPT !.owner =
                  (CHOOSE d \in changes : d.package = r.package /\ d.method = r.method).owner]
          ELSE r : r \in tbl}

NoArg == [package |-> <<>>, method |-> "", datetime |-> 0, owner |-> "", doi |-> ""]

KeyArg(package, method) == [NoArg EXCEPT !.package = package, !.method = method]

Call(op, arg, outcome, raised, ret) ==
    [op |-> op, arg |-> arg, outcome |-> outcome, raised |-> raised, ret |-> ret]

Idle == [pc |-> "idle", todo |-> {}, served |-> <<>>]

\* The location of the transient store, and a path of a file.
MemoryQueue == ":memory:"

FileQueue == "adapter_queue.sqlite"

\* The QueueManager __init__ leaves: the file of a path exists once
\* create_all has connected, the table is there, and the engine and the session
\* are ready. step counts the statements of delete_queue that have run.
NewStore(queue) ==
    [queue |-> queue, file |-> queue # MemoryQueue, table |-> TRUE, engine |-> "live",
     session |-> "open", step |-> 0, unlinks |-> 0]

\* The manager is in use: delete_queue has not been called on it.
InUse == store.step = 0

\* QueueManager.__init__ on a path that holds nothing: an empty table.
Init ==
    /\ db = {}
    /\ tx = {}
    /\ dirty = {}
    /\ call = Call("init", NoArg, "ok", FALSE, {})
    /\ adapter = Idle
    /\ store = NewStore(FileQueue)

\* A session whose flush failed and was not rolled back refuses every
\* statement: PendingRollbackError, which no method catches.
PendingRollback(op, arg) ==
    /\ call' = Call(op, arg, "PendingRollbackError", TRUE, {})
    /\ UNCHANGED <<db, tx, dirty, store>>

\* An except clause that logs the error and leaves the session as the failed
\* flush left it.
log_integrity_error(s) == [s EXCEPT !.session = "inactive"]

\* except IntegrityError: logger.error(e); self.session.rollback()
rollback_integrity_error(s) == [s EXCEPT !.session = "open"]

\* An unpacking that takes the first three parts of more.
unpacks_first_three(parts) == Len(parts) >= Len(<<"scope", "identifier", "revision">>)

\* scope, identifier, revision = ...: the unpacking takes exactly three parts.
unpacks(parts) == Len(parts) = Len(<<"scope", "identifier", "revision">>)

\* QueueManager.enqueue
enqueue(event) ==
    LET parts == split(event.package) IN
    IF ~unpacks(parts)
    THEN \* the unpacking of split(".") raises ValueError before the session is used
         /\ call' = Call("enqueue", event, "ValueError", TRUE, {})
         /\ UNCHANGED <<db, tx, dirty, store>>
    ELSE IF store.session = "inactive" THEN PendingRollback("enqueue", event)
    ELSE LET row == Queue(event.package, parts[1], parts[2], parts[3], event.method,
                          event.datetime, event.owner, event.doi, FALSE)
             res == Insert(Flush(tx, dirty), row)
         IN  IF res.ok
             THEN \* session.commit()
                  /\ db' = res.tbl
                  /\ tx' = res.tbl
                  /\ dirty' = {}
                  /\ call' = Call("enqueue", event, "ok", FALSE, {})
                  /\ UNCHANGED store
             ELSE \* except IntegrityError: logged, session.rollback()
                  /\ db' = db
                  /\ tx' = db
                  /\ dirty' = {}
                  /\ call' = Call("enqueue", event, "IntegrityError", FALSE, {})
                  /\ store' = rollback_integrity_error(store)

\* A call of enqueue with one of these events; the table takes no new row
\* beyond MaxRows.
EnqueueFrom(events) ==
    /\ adapter.pc = "idle"
    /\ InUse
    /\ \E e \in events :
        /\ \/ Cardinality(tx) < MaxRows
           \/ \E r \in tx : r.package = e.package /\ r.method = e.method
           \/ Len(split(e.package)) # 3
        /\ enqueue(e)
    /\ UNCHANGED adapter

Enqueue == EnqueueFrom(Events)

EnqueueCaller == EnqueueFrom(CallerEvents)

EnqueueStores == EnqueueFrom(StoreEvents)

\* A .filter that compares the package alone.
MatchesPackageOnly(r, package, method) == r.package = package

\* .filter(Queue.package == package, Queue.method == method)
Matches(r, package, method) == r.package = package /\ r.method = method

\* An assignment that flips the flag.
ToggleDequeued(r) == [r EXCEPT !.dequeued = ~r.dequeued]

\* An assignment that also stamps the row with the datetime of the dequeue.
MarkDequeuedAndStamp(r) == [r EXCEPT !.dequeued = TRUE, !.datetime = 0]

\* event.dequeued = True
MarkDequeued(r) == [r EXCEPT !.dequeued = TRUE]

\* QueueManager.dequeue
dequeue(package, method) ==
    LET seen == Flush(tx, dirty)   \* the query flushes the session first
        found == {r \in seen : Matches(r, package, method)}
    IN  IF store.session = "inactive"
        THEN PendingRollback("dequeue", KeyArg(package, method))
        ELSE IF Cardinality(found) = 1
        THEN \* .one() gives the row; event.dequeued = True; session.commit()
             LET event == CHOOSE r \in found : TRUE
                 done == (seen \ {event}) \cup {MarkDequeued(event)}
             IN  /\ db' = done
                 /\ tx' = done
                 /\ dirty' = {}
                 /\ call' = Call("dequeue", KeyArg(package, method), "ok", FALSE, {})
                 /\ UNCHANGED store
        ELSE IF found = {}
        THEN \* except NoResultFound: logged
             /\ tx' = seen
             /\ dirty' = {}
             /\ call' = Call("dequeue", KeyArg(package, method), "NoResultFound", FALSE, {})
             /\ UNCHANGED <<db, store>>
        ELSE \* .one() raises MultipleResultsFound, which nothing catches
             /\ tx' = seen
             /\ dirty' = {}
             /\ call' = Call("dequeue", KeyArg(package, method), "MultipleResultsFound", TRUE, {})
             /\ UNCHANGED <<db, store>>

Dequeue ==
    /\ adapter.pc = "idle"
    /\ InUse
    /\ \E k \in TripleKeys : dequeue(k.package, k.method)
    /\ UNCHANGED adapter

\* QueueManager.get_event: the rows .one() can return, none on NoResultFound
\* (logged, None returned) and on MultipleResultsFound (raised).
get_event(tbl, package, method) ==
    LET found == {r \in tbl : Matches(r, package, method)}
    IN  IF Cardinality(found) = 1 THEN found ELSE {}

GetEvent ==
    /\ adapter.pc = "idle"
    /\ InUse
    /\ \E k \in TripleKeys :
        LET seen == Flush(tx, dirty)
            found == {r \in seen : Matches(r, k.package, k.method)}
        IN  IF store.session = "inactive"
            THEN PendingRollback("get_event", KeyArg(k.package, k.method))
            ELSE /\ tx' = seen
                 /\ dirty' = {}
                 /\ call' = Call("get_event", KeyArg(k.package, k.method),
                                 IF Cardinality(found) = 1 THEN "ok"
                                 ELSE IF found = {} THEN "NoResultFound"
                                 ELSE "MultipleResultsFound",
                                 Cardinality(found) > 1,
                                 get_event(seen, k.package, k.method))
                 /\ UNCHANGED <<db, store>>
    /\ UNCHANGED adapter

\* .order_by(desc(Queue.datetime)): the orders the result can come in, a
\* newest row first and the rest in its order; rows of one datetime come in any
\* order.
RECURSIVE OrderByDatetimeDesc(_)
OrderByDatetimeDesc(rows) ==
    IF rows = {} THEN {<<>>}
    ELSE UNION {{<<r>> \o s : s \in OrderByDatetimeDesc(rows \ {r})} :
                  r \in {m \in rows : \A q \in rows : m.datetime >= q.datetime}}

\* .order_by(Queue.datetime): rows of one datetime come in any order.
RECURSIVE OrderByDatetime(_)
OrderByDatetime(rows) ==
    IF rows = {} THEN {<<>>}
    ELSE UNION {{<<r>> \o s : s \in OrderByDatetime(rows \ {r})} :
                  r \in {m \in rows : \A q \in rows : m.datetime <= q.datetime}}

\* .order_by(desc(Queue.revision)): rows of one revision come in any order.
RECURSIVE OrderByRevisionDesc(_)
OrderByRevisionDesc(rows) ==
    IF rows = {} THEN {<<>>}
    ELSE UNION {{<<r>> \o s : s \in OrderByRevisionDesc(rows \ {r})} :
                  r \in {m \in rows : \A q \in rows : ~SqlLess(m.revision, q.revision)}}

\* .first(): the first row of the result, None when it is empty.
First(orders) == {s[1] : s \in {o \in orders : Len(o) > 0}}

\* A head query without the filter on dequeued.
get_head_unfiltered(tbl) == First(OrderByDatetime(tbl))

\* A head query that sorts the newest row first.
get_head_newest(tbl) == First(OrderByDatetimeDesc({r \in tbl : r.dequeued = FALSE}))

\* QueueManager.get_head: the rows the query can return.
get_head(tbl) == First(OrderByDatetime({r \in tbl : r.dequeued = FALSE}))

\* A get_head() that takes the head off the queue as it returns it.
CallGetHeadPopping ==
    LET heads == get_head(tx)
    IN  \/ /\ heads = {}
           /\ call' = Call("get_head", NoArg, "ok", FALSE, {})
           /\ UNCHANGED <<db, tx, dirty, store>>
        \/ \E h \in heads :
              /\ call' = Call("get_head", NoArg, "ok", FALSE, {h})
              /\ db' = (tx \ {h}) \cup {[h EXCEPT !.dequeued = TRUE]}
              /\ tx' = db'
              /\ UNCHANGED <<dirty, store>>

\* The call of get_head() and what it returns.
CallGetHead ==
    LET seen == Flush(tx, dirty)
        heads == get_head(seen)
    IN  IF store.session = "inactive" THEN PendingRollback("get_head", NoArg)
        ELSE /\ tx' = seen
             /\ dirty' = {}
             /\ \/ /\ heads = {}
                   /\ call' = Call("get_head", NoArg, "ok", FALSE, {})
                \/ \E h \in heads : call' = Call("get_head", NoArg, "ok", FALSE, {h})
             /\ UNCHANGED <<db, store>>

GetHead ==
    /\ adapter.pc = "idle"
    /\ InUse
    /\ CallGetHead
    /\ UNCHANGED adapter

\* QueueManager.get_predecessor: the rows the query can return, for a package
\* of three parts.
get_predecessor(tbl, package) ==
    LET parts == split(package)
        scope == parts[1]
        identifier == IntAffinity(parts[2])
        revision == IntAffinity(parts[3])
    IN  First(OrderByRevisionDesc({r \in tbl : /\ r.scope = scope
                                                /\ r.identifier = identifier
                                                /\ SqlLess(r.revision, revision)}))

GetPredecessor ==
    /\ adapter.pc = "idle"
    /\ InUse
    /\ \E p \in QueryPackages :
        IF ~unpacks(split(p))
        THEN \* the unpacking of split(".") raises ValueError before the query
             /\ call' = Call("get_predecessor", KeyArg(p, ""), "ValueError", TRUE, {})
             /\ UNCHANGED <<tx, dirty>>
        ELSE IF store.session = "inactive"
        THEN PendingRollback("get_predecessor", KeyArg(p, ""))
        ELSE LET seen == Flush(tx, dirty)
                 preds == get_predecessor(seen, p)
             IN  /\ tx' = seen
                 /\ dirty' = {}
                 /\ \/ /\ preds = {}
                       /\ call' = Call("get_predecessor", KeyArg(p, ""), "ok", FALSE, {})
                    \/ \E h \in preds :
                          call' = Call("get_predecessor", KeyArg(p, ""), "ok", FALSE, {h})
    /\ UNCHANGED <<db, adapter, store>>

\* A count of the rows that are still to be served.
get_count_pending(tbl) == Cardinality({r \in tbl : ~r.dequeued})

\* QueueManager.get_count: count(Queue.package), one for every row, the
\* package being part of the primary key and so never NULL.
get_count(tbl) == Cardinality({r \in tbl : Len(r.package) >= 0})

GetCount ==
    /\ adapter.pc = "idle"
    /\ InUse
    /\ LET seen == Flush(tx, dirty)
       IN  IF store.session = "inactive" THEN PendingRollback("get_count", NoArg)
           ELSE /\ tx' = seen
                /\ dirty' = {}
                /\ call' = Call("get_count", NoArg, "ok", FALSE, {get_count(seen)})
                /\ UNCHANGED <<db, store>>
    /\ UNCHANGED adapter

\* The datetime of the newest row that is still to be served.
get_last_datetime_pending(tbl) ==
    {r.datetime : r \in First(OrderByDatetimeDesc({q \in tbl : ~q.dequeued}))}

\* QueueManager.get_last_datetime: the datetime of the first row by descending
\* datetime, None on an empty table.
get_last_datetime(tbl) == {r.datetime : r \in First(OrderByDatetimeDesc(tbl))}

GetLastDatetime ==
    /\ adapter.pc = "idle"
    /\ InUse
    /\ LET seen == Flush(tx, dirty)
       IN  IF store.session = "inactive" THEN PendingRollback("get_last_datetime", NoArg)
           ELSE /\ tx' = seen
                /\ dirty' = {}
                /\ \E t \in {get_last_datetime(seen)} :
                      call' = Call("get_last_datetime", NoArg, "ok", FALSE, t)
                /\ UNCHANGED <<db, store>>
    /\ UNCHANGED adapter

\* An is_dequeued that starts from "dequeued = False".
is_dequeued_default_false(tbl, package, method) ==
    LET found == {r \in tbl : Matches(r, package, method)}
    IN  IF Cardinality(found) = 1 THEN {r.dequeued : r \in found} ELSE {FALSE}

\* QueueManager.is_dequeued: the flag of the row .one() returns, None on
\* NoResultFound (logged) and nothing on MultipleResultsFound (raised).
is_dequeued(tbl, package, method) ==
    LET found == {r \in tbl : Matches(r, package, method)}
    IN  IF Cardinality(found) = 1 THEN {r.dequeued : r \in found} ELSE {}

IsDequeued ==
    /\ adapter.pc = "idle"
    /\ InUse
    /\ \E k \in TripleKeys :
        LET seen == Flush(tx, dirty)
            found == {r \in seen : Matches(r, k.package, k.method)}
        IN  IF store.session = "inactive"
            THEN PendingRollback("is_dequeued", KeyArg(k.package, k.method))
            ELSE /\ tx' = seen
                 /\ dirty' = {}
                 /\ call' = Call("is_dequeued", KeyArg(k.package, k.method),
                                 IF Cardinality(found) = 1 THEN "ok"
                                 ELSE IF found = {} THEN "NoResultFound"
                                 ELSE "MultipleResultsFound",
                                 Cardinality(found) > 1,
                                 IF Cardinality(found) > 1 THEN {}
                                 ELSE is_dequeued(seen, k.package, k.method))
                 /\ UNCHANGED <<db, store>>
    /\ UNCHANGED adapter

\* A delete_queue that removes the file first.
delete_queue_unlink_first == <<"unlink", "close_all", "drop_all", "dispose">>

\* QueueManager.delete_queue, its statements in their order.
delete_queue == <<"close_all", "drop_all", "dispose", "unlink">>

\* A test that takes every location for a path.
IsFileBackedAlways(queue) == queue \in {MemoryQueue, FileQueue}

\* if self.queue != ":memory:"
IsFileBacked(queue) == queue # MemoryQueue

\* The next statement of delete_queue runs. close_all ends the session and
\* with it what was not committed; drop_all drops the table through a
\* connection of the engine; dispose closes the connections of the engine;
\* unlink removes the file of a path, and raises FileNotFoundError when there is
\* none. The call returns with the last statement.
DeleteQueueStep ==
    /\ adapter.pc = "idle"
    /\ store.step < Len(delete_queue)
    /\ LET statement == delete_queue[store.step + 1]
           last == store.step + 1 = Len(delete_queue)
           missing == statement = "unlink" /\ IsFileBacked(store.queue) /\ ~store.file
       IN  /\ call' = Call("delete_queue", NoArg,
                           IF missing THEN "FileNotFoundError"
                           ELSE IF last THEN "ok" ELSE statement,
                           missing, {})
           /\ db' = IF statement = "drop_all" THEN {} ELSE db
           /\ tx' = IF statement = "drop_all" THEN {}
                    ELSE IF statement = "close_all" THEN db ELSE tx
           /\ dirty' = IF statement = "close_all" THEN {} ELSE dirty
           /\ store' =
                IF statement = "close_all"
                THEN [store EXCEPT !.session = "closed", !.step = @ + 1]
                ELSE IF statement = "drop_all"
                THEN [store EXCEPT !.table = FALSE, !.engine = "live", !.step = @ + 1]
                ELSE IF statement = "dispose"
                THEN [store EXCEPT !.engine = "disposed", !.step = @ + 1]
                ELSE IF IsFileBacked(store.queue)
                THEN [store EXCEPT !.file = FALSE, !.unlinks = 1, !.step = @ + 1]
                ELSE [store EXCEPT !.step = @ + 1]
    /\ UNCHANGED adapter

\* A create_all that drops the table it finds.
create_all_fresh(s, rows) == rows \ rows

\* Base.metadata.create_all(self.engine): the table of a file that has it is
\* kept with its rows; a file that is not there, a file without the table and
\* every ":memory:" engine start with an empty table.
create_all(s, rows) == IF s.queue # MemoryQueue /\ s.file /\ s.table THEN rows ELSE {}

\* QueueManager.__init__ on the location of this store, where an earlier
\* manager has left the store or has deleted it: a new engine, the table, a new
\* session.
Open ==
    /\ adapter.pc = "idle"
    /\ store.step \in {0, Len(delete_queue)}
    /\ db' = create_all(store, db)
    /\ tx' = db'
    /\ dirty' = {}
    /\ call' = Call("init", NoArg, "ok", FALSE, {})
    /\ store' = NewStore(store.queue)
    /\ UNCHANGED adapter

\* The adapter loop, "h = get_head(); while h: dequeue(h.package, h.method);
\* h = get_head()", starts: its first get_head(), on the rows not dequeued.
AdapterStart ==
    /\ adapter.pc = "idle"
    /\ InUse
    /\ CallGetHead
    /\ adapter' = [pc |-> IF call'.ret = {} THEN "done" ELSE "dequeue",
                   todo |-> {r \in Flush(tx, dirty) : ~r.dequeued},
                   served |-> <<>>]

\* The loop acknowledges the head it was given.
AdapterDequeue ==
    /\ adapter.pc = "dequeue"
    /\ \E h \in call.ret :
        /\ dequeue(h.package, h.method)
        /\ adapter' = [adapter EXCEPT !.pc = "head", !.served = Append(@, h)]

\* The loop asks for the next head, and ends when there is none.
AdapterHead ==
    /\ adapter.pc = "head"
    /\ CallGetHead
    /\ adapter' = [adapter EXCEPT !.pc = IF call'.ret = {} THEN "done" ELSE "dequeue"]

\* The loop is over; the callers go on.
AdapterEnd ==
    /\ adapter.pc = "done"
    /\ adapter' = Idle
    /\ UNCHANGED <<db, tx, dirty, call, store>>

\* The caller assigns to an attribute of the row the last query returned: the
\* row is an object attached to the session.
CallerMutate ==
    /\ adapter.pc = "idle"
    /\ InUse
    /\ call.op \in {"get_event", "get_head", "get_predecessor"}
    /\ \E r \in call.ret :
        /\ ~\E d \in dirty : d.package = r.package /\ d.method = r.method
        /\ dirty' = dirty \cup {[package |-> r.package, method |-> r.method,
                                 owner |-> CallerOwner]}
    /\ UNCHANGED <<db, tx, call, adapter, store>>

Next ==
    \/ Enqueue
    \/ Dequeue
    \/ GetEvent
    \/ GetHead
    \/ GetPredecessor
    \/ AdapterStart
    \/ AdapterDequeue
    \/ AdapterHead
    \/ AdapterEnd

\* The QueueManager's callers keep to its methods.
Spec == Init /\ [][Next]_vars

NextCaller ==
    \/ EnqueueCaller
    \/ Dequeue
    \/ GetEvent
    \/ GetHead
    \/ GetPredecessor
    \/ AdapterStart
    \/ AdapterDequeue
    \/ AdapterHead
    \/ AdapterEnd
    \/ CallerMutate

\* The callers also assign to the rows they are handed.
SpecCaller == Init /\ [][NextCaller]_vars

\* A store on either location, the transient one or a file.
InitStores ==
    /\ db = {}
    /\ tx = {}
    /\ dirty = {}
    /\ call = Call("init", NoArg, "ok", FALSE, {})
    /\ adapter = Idle
    /\ \E queue \in {MemoryQueue, FileQueue} : store = NewStore(queue)

\* Every method of the QueueManager, and __init__ on the location again.
NextStores ==
    \/ EnqueueStores
    \/ Dequeue
    \/ GetEvent
    \/ GetHead
    \/ GetPredecessor
    \/ GetCount
    \/ GetLastDatetime
    \/ IsDequeued
    \/ DeleteQueueStep
    \/ Open

\* The life of a store, from __init__ to delete_queue and __init__ again.
SpecStores == InitStores /\ [][NextStores]_vars

\* ------------------------------------------------------------------ claims

\* C1: no two stored rows share the same (package, method) pair, whatever
\* enqueue and dequeue calls were made; one package may be stored under
\* several methods.
C1_UniqueKey ==
    \A r1, r2 \in db : (r1.package = r2.package /\ r1.method = r2.method) => r1 = r2

\* An enqueue was just rejected as a duplicate while one package is stored
\* under two methods.
C1_Witness ==
    /\ call.op = "enqueue"
    /\ call.outcome = "IntegrityError"
    /\ \E r1, r2 \in db : r1.package = r2.package /\ r1.method # r2.method

\* C2: enqueue(e) on a stored (package, method) returns without an exception
\* and leaves the store as it was: the same rows, every field of each as before.
C2_DuplicateEnqueueLeavesStore ==
    [][(/\ call'.op = "enqueue"
        /\ \E r \in db : r.package = call'.arg.package /\ r.method = call'.arg.method)
       => (/\ call'.raised = FALSE
           /\ Cardinality(db') = Cardinality(db)
           /\ db' = db
           /\ tx' = db)]_vars

\* A duplicate enqueue that carried another datetime, owner and doi than the
\* stored row, which is already dequeued.
C2_Witness ==
    /\ call.op = "enqueue"
    /\ call.outcome = "IntegrityError"
    /\ \E r \in db :
        /\ r.package = call.arg.package
        /\ r.method = call.arg.method
        /\ r.dequeued
        /\ r.datetime # call.arg.datetime
        /\ r.owner # call.arg.owner
        /\ r.doi # call.arg.doi

\* C3: get_head() returns a row that is not dequeued and whose datetime no
\* other row that is not dequeued undercuts, and returns None exactly when
\* every row is dequeued.
C3_HeadIsOldestUndequeued ==
    call.op = "get_head" =>
        LET live == {r \in db : ~r.dequeued}
        IN  /\ call.ret = {} <=> live = {}
            /\ \A h \in call.ret :
                /\ h \in live
                /\ \A r \in live : h.datetime <= r.datetime

\* get_head() returned a row while an older row is dequeued and another row
\* is not.
C3_Witness ==
    /\ call.op = "get_head"
    /\ \E h \in call.ret :
        /\ \E r \in db : r.dequeued /\ r.datetime < h.datetime
        /\ \E r \in db : ~r.dequeued /\ r # h

\* C4: the adapter loop, with no enqueue in between, is handed each of the N
\* rows that were not dequeued exactly once, in non-decreasing datetime order,
\* and get_head() returns None after exactly N turns, every row dequeued.
C4_AdapterLoopServesAll ==
    LET served == adapter.served
        n == Len(served)
    IN  /\ \A i \in 1..n : served[i] \in adapter.todo
        /\ \A i, j \in 1..n :
            i < j => served[i] # served[j] /\ served[i].datetime <= served[j].datetime
        /\ adapter.pc = "done" =>
            /\ n = Cardinality(adapter.todo)
            /\ {served[i] : i \in 1..n} = adapter.todo
            /\ call.op = "get_head" /\ call.ret = {}
            /\ \A r \in db : r.dequeued

\* The loop ended after three turns on rows of different datetimes.
C4_Witness ==
    /\ adapter.pc = "done"
    /\ Len(adapter.served) = MaxRows
    /\ adapter.served[1].datetime < adapter.served[Len(adapter.served)].datetime

\* The identifier of row r is the identifier the text t names.
SameIdentifier(r, t) ==
    IF IsIntLiteral(t) THEN r.identifier.cls = "integer" /\ r.identifier.n = ToInt(t)
    ELSE r.identifier.cls = "text" /\ r.identifier.s = t

\* C5: get_predecessor(package), for a package whose revision is a number,
\* returns a row of the package's scope and identifier whose revision is the
\* largest number below the package's revision, dequeued or not, and None
\* exactly when there is no such row.
C5_PredecessorIsLargestSmallerRevision ==
    (/\ call.op = "get_predecessor"
     /\ ~call.raised
     /\ IsIntLiteral(split(call.arg.package)[Len(split(call.arg.package))]))
    => LET parts == split(call.arg.package)
           family == {r \in db : /\ r.scope = parts[1]
                                  /\ SameIdentifier(r, parts[2])
                                  /\ r.revision.cls = "integer"
                                  /\ r.revision.n < ToInt(parts[3])}
       IN  /\ call.ret = {} <=> family = {}
           /\ \A h \in call.ret :
               /\ h \in family
               /\ \A r \in family : r.revision.n <= h.revision.n

\* With revisions 2, 9 and 10 of a.1 stored, get_predecessor("a.1.10")
\* returned the row of revision 9, which is dequeued.
C5_Witness ==
    /\ call.op = "get_predecessor"
    /\ call.arg.package = PkgA_1_10
    /\ {r.package : r \in db} = {PkgA_01_2, PkgA_1_9, PkgA_1_10}
    /\ \E h \in call.ret : h.package = PkgA_1_9 /\ h.dequeued

\* A package of a scope and two numbers.
WellFormed(package) ==
    LET parts == split(package)
    IN  /\ Len(parts) = Len(<<"scope", "identifier", "revision">>)
        /\ parts[1] # <<>>
        /\ \A i \in 2..Len(parts) : IsIntLiteral(parts[i])

\* The row the event e is to be read back as.
ExpectedRow(e) ==
    LET parts == split(e.package)
    IN  [package |-> e.package, scope |-> parts[1],
         identifier |-> IntegerValue(ToInt(parts[2])),
         revision |-> IntegerValue(ToInt(parts[3])),
         method |-> e.method, datetime |-> e.datetime, owner |-> e.owner,
         doi |-> e.doi, dequeued |-> FALSE]

\* C6: after enqueue(e) of a well-formed package under a pair not stored
\* before, get_event(e.package, e.method) returns the row of e's package,
\* method, datetime, owner and doi, the three parts of the package as scope
\* and as the integers identifier and revision, and dequeued false.
C6_RoundTrip ==
    (call.op = "enqueue" /\ call.outcome = "ok" /\ WellFormed(call.arg.package))
    => get_event(Flush(tx, dirty), call.arg.package, call.arg.method) = {ExpectedRow(call.arg)}

\* a.01.2 was enqueued and reads back with the identifier 1.
C6_Witness ==
    /\ call.op = "enqueue"
    /\ call.outcome = "ok"
    /\ call.arg.package = PkgA_01_2
    /\ \E r \in get_event(Flush(tx, dirty), call.arg.package, call.arg.method) :
        r.identifier = IntegerValue(ToInt(<<"1">>)) /\ r.scope = <<"a">>

\* C7: a row is created with dequeued false, a dequeue that succeeds leaves
\* it true, and no call turns it false again, up to delete_queue.
C7_DequeuedIsOneWay ==
    [][/\ call'.op # "delete_queue" =>
            \A r \in db : r.dequeued =>
                \E q \in db' : q.package = r.package /\ q.method = r.method /\ q.dequeued
       /\ \A q \in db' :
            (~\E r \in db : r.package = q.package /\ r.method = q.method) => ~q.dequeued
       /\ (call'.op = "dequeue" /\ call'.outcome = "ok") =>
            \E q \in db' : /\ q.package = call'.arg.package
                            /\ q.method = call'.arg.method
                            /\ q.dequeued]_vars

\* An enqueue of the pair of a dequeued row was rejected; the row is still
\* dequeued.
C7_Witness ==
    /\ call.op = "enqueue"
    /\ call.outcome = "IntegrityError"
    /\ \E r \in db :
        r.package = call.arg.package /\ r.method = call.arg.method /\ r.dequeued

\* C8: dequeue(package, method) of a pair that is not stored returns without
\* an exception and leaves the rows and their dequeued flags as they were.
C8_DequeueOfAbsentLeavesStore ==
    [][(/\ call'.op = "dequeue"
        /\ ~\E r \in db : r.package = call'.arg.package /\ r.method = call'.arg.method)
       => (/\ call'.raised = FALSE
           /\ Cardinality(db') = Cardinality(db)
           /\ db' = db)]_vars

\* A dequeue found no row, the package being stored under the other method.
C8_Witness ==
    /\ call.op = "dequeue"
    /\ call.outcome = "NoResultFound"
    /\ \E r \in db :
        r.package = call.arg.package /\ r.method # call.arg.method /\ ~r.dequeued

\* C9: what a caller writes into a row that get_event, get_head or
\* get_predecessor returned is never made persistent, not by the commit of a
\* later enqueue or dequeue either.
C9_CallerWriteNeverPersisted ==
    \A r \in db : r.owner # CallerOwner

\* C10: the package of every stored row is its scope, identifier and
\* revision joined by dots, the two numbers in decimal.
C10_PackageAgreesWithParts ==
    \A r \in db :
        r.package = r.scope \o <<".">> \o ValueText(r.identifier)
                        \o <<".">> \o ValueText(r.revision)

\* C11: enqueue of an event whose package does not split on "." into three
\* parts, fewer or more, raises to the caller and leaves every row as it was.
C11_MalformedEnqueueRaises ==
    [][(/\ call'.op = "enqueue"
        /\ Len(split(call'.arg.package)) # 3)
       => (/\ call'.raised
           /\ call'.outcome = "ValueError"
           /\ db' = db
           /\ tx' = tx)]_vars

\* An enqueue of a package of four parts raised on a store that holds rows.
C11_Witness ==
    /\ call.op = "enqueue"
    /\ call.raised
    /\ Len(split(call.arg.package)) > 3
    /\ db # {}

\* The largest datetime of these rows, none when there is no row.
LargestDatetime(rows) ==
    {t \in {r.datetime : r \in rows} : \A r \in rows : r.datetime <= t}

\* C12: get_last_datetime() returns the largest datetime of all the rows,
\* dequeued or not, and None exactly when there is no row; so a dequeue of the
\* newest row does not change it.
C12_LastDatetimeIsLargest ==
    call.op = "get_last_datetime"
    => /\ ~call.raised
       /\ call.ret = LargestDatetime(db)
       /\ (call.ret = {} <=> db = {})

\* get_last_datetime() returned the datetime of a row that is dequeued and
\* newer than every row still to be served.
C12_Witness ==
    /\ call.op = "get_last_datetime"
    /\ \E r \in db :
        /\ r.dequeued
        /\ call.ret = {r.datetime}
        /\ \E q \in db : ~q.dequeued
        /\ \A q \in db : ~q.dequeued => q.datetime < r.datetime

\* The methods that only read.
Queries ==
    {"get_event", "get_head", "get_last_datetime", "get_predecessor", "is_dequeued",
     "get_count"}

\* C13: get_count() is the number of rows, dequeued or not; an enqueue of a
\* new pair raises it by one, and a rejected enqueue, a dequeue and a query
\* leave it as it was.
C13_CountIsNumberOfRows ==
    [][/\ call'.op = "get_count" => call'.ret = {Cardinality(db')}
       /\ (call'.op = "enqueue" /\ call'.outcome = "ok")
            => Cardinality(db') = Cardinality(db) + 1
       /\ (call'.op \in Queries \cup {"dequeue"}
                \/ (call'.op = "enqueue" /\ call'.outcome # "ok"))
            => Cardinality(db') = Cardinality(db)]_vars

\* get_count() counted a full store with a dequeued row in it.
C13_Witness ==
    /\ call.op = "get_count"
    /\ call.ret = {MaxRows}
    /\ \E r \in db : r.dequeued
    /\ \E r \in db : ~r.dequeued

\* C14: when delete_queue() has returned no row is left; the file of a path
\* is gone after one unlink, and for ":memory:" no unlink was tried and nothing
\* was raised.
C14_DeleteQueueIsFinal ==
    (call.op = "delete_queue" /\ (call.outcome = "ok" \/ call.raised))
    => /\ ~call.raised
       /\ db = {}
       /\ tx = {}
       /\ ~store.file
       /\ ~store.table
       /\ store.unlinks = IF store.queue = MemoryQueue THEN 0 ELSE 1

\* delete_queue() has returned on the store of a file.
C14_Witness ==
    /\ call.op = "delete_queue"
    /\ call.outcome = "ok"
    /\ store.queue = FileQueue
    /\ ~store.file
    /\ db = {}

\* C15: __init__ on a file that holds the table keeps every row with every
\* field; on a location that holds nothing it starts from an empty table.
C15_OpenKeepsRows ==
    [][call'.op = "init"
       => /\ db' = (IF store.file /\ store.table THEN db ELSE {})
          /\ tx' = db'
          /\ Cardinality(db') = (IF store.file /\ store.table THEN Cardinality(db) ELSE 0)
          /\ store'.session = "open"
          /\ store'.table]_vars

\* A manager was constructed on a file that holds a dequeued row and a row
\* still to be served.
C15_Witness ==
    /\ call.op = "init"
    /\ store.file
    /\ \E r \in db : r.dequeued
    /\ \E r \in db : ~r.dequeued

\* The last call failed and the method recovered: a rejected enqueue, or a
\* dequeue, get_event or is_dequeued that found no row.
RecoveredFailure(c) ==
    \/ c.op = "enqueue" /\ c.outcome = "IntegrityError"
    \/ c.op \in {"dequeue", "get_event", "is_dequeued"} /\ c.outcome = "NoResultFound"

\* C16: after a failure the method recovered from, an enqueue of a new pair
\* succeeds and get_event returns its row, and a dequeue of a stored row sets
\* its flag.
C16_UsableAfterRecoveredFailure ==
    [][RecoveredFailure(call)
       => /\ (/\ call'.op = "enqueue"
              /\ Len(split(call'.arg.package)) = 3
              /\ ~\E r \in db : /\ r.package = call'.arg.package
                                /\ r.method = call'.arg.method)
             => /\ call'.outcome = "ok"
                /\ ~call'.raised
                /\ \E q \in db' : /\ q.package = call'.arg.package
                                  /\ q.method = call'.arg.method
                                  /\ get_event(tx', q.package, q.method) = {q}
          /\ (/\ call'.op = "dequeue"
              /\ \E r \in db : /\ r.package = call'.arg.package
                               /\ r.method = call'.arg.method)
             => /\ call'.outcome = "ok"
                /\ \E q \in db' : /\ q.package = call'.arg.package
                                  /\ q.method = call'.arg.method
                                  /\ q.dequeued]_vars

\* An enqueue was rejected on a store that has room for a new pair and holds
\* a row still to be served.
C16_Witness ==
    /\ call.op = "enqueue"
    /\ RecoveredFailure(call)
    /\ store.session = "open"
    /\ Cardinality(db) < MaxRows
    /\ \E r \in db : ~r.dequeued

\* C17: is_dequeued(package, method) returns the flag of the row of the pair
\* and None, which is not False, exactly when there is no such row; get_event
\* returns the row or None; neither raises.
C17_IsDequeuedReturnsFlag ==
    LET found == {r \in db : r.package = call.arg.package /\ r.method = call.arg.method}
    IN  /\ call.op = "is_dequeued"
            => /\ ~call.raised
               /\ call.ret = {r.dequeued : r \in found}
               /\ (call.ret = {} <=> found = {})
        /\ call.op = "get_event"
            => /\ ~call.raised
               /\ call.ret = found

\* is_dequeued returned None for a pair whose package is stored under the
\* other method, dequeued.
C17_Witness ==
    /\ call.op = "is_dequeued"
    /\ call.ret = {}
    /\ \E r \in db : r.package = call.arg.package /\ r.dequeued

\* C18: inside delete_queue() the file is removed only when the session is
\* closed, the table dropped and the engine disposed.
C18_UnlinkComesLast ==
    [][(store.file /\ ~store'.file)
       => /\ store.session = "closed"
          /\ ~store.table
          /\ store.engine = "disposed"
          /\ db = {}]_vars

\* The unlink has run, after the three statements before it.
C18_Witness ==
    /\ store.unlinks = 1
    /\ store.step = 4
    /\ store.session = "closed"
    /\ store.engine = "disposed"
    /\ ~call.raised

\* C19: a dequeue that succeeds changes the dequeued field of its row and
\* nothing else, an enqueue that succeeds adds one row and changes none, and
\* no call but delete_queue() removes a row.
C19_OnlyDeleteQueueRemovesRows ==
    [][/\ (call'.op = "dequeue" /\ call'.outcome = "ok")
            => \E r \in db : /\ r.package = call'.arg.package
                             /\ r.method = call'.arg.method
                             /\ db' = (db \ {r}) \cup {[r EXCEPT !.dequeued = TRUE]}
       /\ (call'.op = "enqueue" /\ call'.outcome = "ok")
            => /\ db \subseteq db'
               /\ Cardinality(db' \ db) = 1
       /\ call'.op \in Queries \cup {"enqueue", "dequeue"}
            => \A r \in db : \E q \in db' : q.package = r.package /\ q.method = r.method]_vars

\* A dequeue succeeded on a full store, other rows still to be served.
C19_Witness ==
    /\ call.op = "dequeue"
    /\ call.outcome = "ok"
    /\ Cardinality(db) = MaxRows
    /\ \E r \in db : r.dequeued /\ r.package = call.arg.package /\ r.method = call.arg.method
    /\ \E r \in db : ~r.dequeued

\* C20: the six queries leave every row and the manager as they were, and
\* what they return is a result of the rows as they were before the call.
C20_QueriesReadOnly ==
    [][call'.op \in Queries
       => /\ db' = db
          /\ store' = store
          /\ call'.op = "get_head" => call'.ret \subseteq get_head(db)
          /\ call'.op = "get_count" => call'.ret = {get_count(db)}
          /\ call'.op = "get_last_datetime" => call'.ret = get_last_datetime(db)
          /\ (call'.op = "get_predecessor" /\ ~call'.raised)
                => call'.ret \subseteq get_predecessor(db, call'.arg.package)
          /\ call'.op = "get_event"
                => call'.ret = get_event(db, call'.arg.package, call'.arg.method)
          /\ call'.op = "is_dequeued"
                => call'.ret = is_dequeued(db, call'.arg.package, call'.arg.method)]_vars

\* A query returned a row of a full store with rows still to be served.
C20_Witness ==
    /\ call.op = "get_predecessor"
    /\ call.ret # {}
    /\ Cardinality(db) = MaxRows
    /\ \E r \in db : ~r.dequeued

====
